---- MODULE Spec2Model ----
(***************************************************************************)
(* Control-flow-graph builder and metrics of cfg_generator.py.             *)
(*                                                                         *)
(* CFGBuilder walks a Python AST with ast.NodeVisitor dispatch, emitting   *)
(* nodes and edges into a networkx DiGraph held by the builder instance;   *)
(* calculate_metrics derives counts from a finished graph.  The module     *)
(* models the builder's fields, the graph object store, the visitor        *)
(* methods as recursive operators over statement trees, and two usage      *)
(* disciplines: the page script (one new builder per run) and free use of  *)
(* the class and function by a caller.                                     *)
(***************************************************************************)
EXTENDS Integers, Sequences, FiniteSets, TLC

VARIABLES
    graphs,     \* object store: graphs[k] is the content of DiGraph object k
    builder,    \* the CFGBuilder instance in hand: graph (a reference), counter, last_node
    returned,   \* one record per build call made, in call order
    m,          \* the value of the last calculate_metrics call with its argument
    pc          \* position of the page script

vars == <<graphs, builder, returned, m, pc>>

(***************************************************************************)
(* Bounds.                                                                 *)
(***************************************************************************)
\* statements (at any nesting depth) of a program typed into the page
MaxStmts == 4
\* statements of a program handed to build by a free caller
ApiStmts == 1
\* build calls a free caller makes
MaxBuilds == 2
\* CFGBuilder instances a free caller constructs
MaxBuilders == 2

(***************************************************************************)
(* Python values.                                                          *)
(***************************************************************************)
\* Python's None; every value that may be None is modelled as a tuple
None == <<>>

\* truth value of `if self.last_node:` for None or a node id (a non-empty str)
Truthy(v) == v # None

(***************************************************************************)
(* Statement trees (ast.parse output).  A statement is a record            *)
(* [kind, text, body, orelse]; kind is the ast class name, text the source *)
(* of the statement (Assign, Expr) or of its test (If, While).  Pass and   *)
(* For stand for the classes CFGBuilder defines no visit_ method for: a    *)
(* simple statement, and a compound one holding nested statements.         *)
(***************************************************************************)
Leaf(kind, text) == [kind |-> kind, text |-> text, body |-> <<>>, orelse |-> <<>>]

AssignStmt == Leaf("Assign", "x = 10")
ExprStmt == Leaf("Expr", "print(x)")
PassStmt == Leaf("Pass", "pass")

Compound(kind, text, body, orelse) ==
    [kind |-> kind, text |-> text, body |-> body, orelse |-> orelse]

RECURSIVE StmtsOfSize(_), BodiesOfSize(_)
\* statement lists holding exactly n statements, nested ones included
BodiesOfSize(n) ==
    IF n = 0 THEN {<<>>}
    ELSE UNION {{<<s>> \o rest : s \in StmtsOfSize(k), rest \in BodiesOfSize(n - k)} :
                k \in 1..n}

\* single statements holding exactly n statements, itself included;
\* the grammar requires a non-empty body and allows an empty orelse
StmtsOfSize(n) ==
    IF n = 1 THEN {AssignStmt, ExprStmt, PassStmt}
    ELSE LET parts == UNION {BodiesOfSize(a) \X BodiesOfSize(n - 1 - a) : a \in 1..(n - 1)}
         IN  {Compound("If", "x > 5", p[1], p[2]) : p \in parts}
             \cup {Compound("For", "i in xs", p[1], p[2]) : p \in parts}
             \cup {Compound("While", "x < 5", b, <<>>) : b \in BodiesOfSize(n - 1)}

ModulesUpTo(n) == UNION {BodiesOfSize(k) : k \in 0..n}

\* program text: either text that parses, carried as its module body, or text that does not
GoodCode(body) == [ok |-> TRUE, body |-> body, msg |-> None]
BadCode == [ok |-> FALSE, body |-> <<>>, msg |-> <<"invalid syntax">>]

PageInputs == {GoodCode(b) : b \in ModulesUpTo(MaxStmts)} \cup {BadCode}
ApiInputs == {GoodCode(b) : b \in ModulesUpTo(ApiStmts)} \cup {BadCode}

\* ast.unparse(node): the source text of a statement, or of the test of an If or While
unparse(node) == node.text

(***************************************************************************)
(* networkx.DiGraph.  Content of a graph object: nodes maps node id to     *)
(* its attributes, edges lists the (source, target, label) triples in      *)
(* insertion order.  A DiGraph holds at most one edge per ordered pair.    *)
(***************************************************************************)
DiGraph == [nodes |-> <<>>, edges |-> <<>>]

\* DiGraph.add_node(node_id, label=..., shape=...): sets the attributes of node_id
add_node(g, node_id, label, shape) ==
    [g EXCEPT !.nodes = (node_id :> [label |-> label, shape |-> shape]) @@ g.nodes]

\* DiGraph.add_edge(u, v, label=...): a second call for the same (u, v)
\* updates the attributes of the one edge the pair has
nx_add_edge(g, u, v, label) ==
    LET same == {i \in DOMAIN g.edges : g.edges[i].source = u /\ g.edges[i].target = v}
        e == [source |-> u, target |-> v, label |-> label]
    IN  IF same = {}
        THEN [g EXCEPT !.edges = Append(g.edges, e)]
        ELSE [g EXCEPT !.edges = [i \in DOMAIN g.edges |-> IF i \in same THEN e ELSE g.edges[i]]]

number_of_nodes(g) == Cardinality(DOMAIN g.nodes)
number_of_edges(g) == Len(g.edges)
out_degree(g, n) == Cardinality({i \in DOMAIN g.edges : g.edges[i].source = n})
in_degree(g, n) == Cardinality({i \in DOMAIN g.edges : g.edges[i].target = n})

(***************************************************************************)
(* CFGBuilder.  A builder value `self` is [graph, counter, last_node,      *)
(* calls]: graph is the content of the DiGraph object self.graph refers    *)
(* to while a method runs, and calls counts the add_edge calls made (a     *)
(* history field, read by no method).                                      *)
(***************************************************************************)
\* f"node_{self.counter}"
node_id(counter) == <<"node_", counter>>

\* CFGBuilder.__init__ on a new DiGraph
CFGBuilder == [graph |-> DiGraph, counter |-> 0, last_node |-> None, calls |-> 0]

\* CFGBuilder.new_node; the id it returns is node_id of the counter it leaves
new_node(self, label, shape) ==
    [self EXCEPT !.counter = self.counter + 1,
                 !.graph = add_node(self.graph, node_id(self.counter + 1), label, shape)]

\* CFGBuilder.add_edge
add_edge(self, source, target, label) ==
    [self EXCEPT !.graph = nx_add_edge(self.graph, source, target, label),
                 !.calls = self.calls + 1]

\* the statement pattern `if self.last_node: self.add_edge(self.last_node, n)`
link_from_last(self, n) ==
    IF Truthy(self.last_node) THEN add_edge(self, self.last_node, n, "") ELSE self

\* visit_Assign without its last line `self.last_node = current_node`
visit_Assign_cursor_kept(self, node) ==
    LET s1 == new_node(self, unparse(node), "box")
        current_node == node_id(s1.counter)
    IN  link_from_last(s1, current_node)

\* visit_Assign
visit_Assign(self, node) ==
    LET s1 == new_node(self, unparse(node), "box")
        current_node == node_id(s1.counter)
    IN  [link_from_last(s1, current_node) EXCEPT !.last_node = current_node]

\* visit_Expr
visit_Expr(self, node) ==
    LET s1 == new_node(self, unparse(node), "box")
        current_node == node_id(s1.counter)
    IN  [link_from_last(s1, current_node) EXCEPT !.last_node = current_node]

RECURSIVE visit(_, _), visit_each(_, _)

\* the loops `for child in stmts: self.visit(child)`
visit_each(self, stmts) ==
    IF stmts = <<>> THEN self
    ELSE visit_each(visit(self, Head(stmts)), Tail(stmts))

\* visit_If
visit_If(self, node) ==
    LET s1 == new_node(self, "if " \o unparse(node) \o ":", "diamond")
        condition_node == node_id(s1.counter)
        s2 == link_from_last(s1, condition_node)
        s3 == visit_each([s2 EXCEPT !.last_node = condition_node], node.body)
        end_true == s3.last_node
        s4 == visit_each([s3 EXCEPT !.last_node = condition_node], node.orelse)
        end_false == s4.last_node
        s5 == new_node(s4, "merge", "point")
        merge_node == node_id(s5.counter)
        s6 == add_edge(s5, end_true, merge_node, "True")
        s7 == add_edge(s6, end_false, merge_node, "False")
    IN  [s7 EXCEPT !.last_node = merge_node]

\* visit_While without `self.add_edge(condition_node, exit_node, label="False")`
visit_While_no_exit_edge(self, node) ==
    LET s1 == new_node(self, "while " \o unparse(node) \o ":", "diamond")
        condition_node == node_id(s1.counter)
        s2 == link_from_last(s1, condition_node)
        s3 == visit_each([s2 EXCEPT !.last_node = condition_node], node.body)
        s4 == add_edge(s3, s3.last_node, condition_node, "Loop Back")
        s5 == new_node(s4, "exit_loop", "point")
        exit_node == node_id(s5.counter)
    IN  [s5 EXCEPT !.last_node = exit_node]

\* visit_While without its last line `self.last_node = exit_node`
visit_While_cursor_in_body(self, node) ==
    LET s1 == new_node(self, "while " \o unparse(node) \o ":", "diamond")
        condition_node == node_id(s1.counter)
        s2 == link_from_last(s1, condition_node)
        s3 == visit_each([s2 EXCEPT !.last_node = condition_node], node.body)
        s4 == add_edge(s3, s3.last_node, condition_node, "Loop Back")
        s5 == new_node(s4, "exit_loop", "point")
        exit_node == node_id(s5.counter)
    IN  add_edge(s5, condition_node, exit_node, "False")

\* visit_While
visit_While(self, node) ==
    LET s1 == new_node(self, "while " \o unparse(node) \o ":", "diamond")
        condition_node == node_id(s1.counter)
        s2 == link_from_last(s1, condition_node)
        s3 == visit_each([s2 EXCEPT !.last_node = condition_node], node.body)
        s4 == add_edge(s3, s3.last_node, condition_node, "Loop Back")
        s5 == new_node(s4, "exit_loop", "point")
        exit_node == node_id(s5.counter)
        s6 == add_edge(s5, condition_node, exit_node, "False")
    IN  [s6 EXCEPT !.last_node = exit_node]

\* ast.NodeVisitor.generic_visit, which CFGBuilder inherits: visits every
\* child node, field by field; the statement children are body then orelse
generic_visit(self, node) == visit_each(self, node.body \o node.orelse)

\* ast.NodeVisitor.visit: dispatch on the class name, generic_visit when
\* the class has no visit_ method
visit(self, node) ==
    CASE node.kind = "Assign" -> visit_Assign(self, node)
      [] node.kind = "Expr" -> visit_Expr(self, node)
      [] node.kind = "If" -> visit_If(self, node)
      [] node.kind = "While" -> visit_While(self, node)
      [] OTHER -> generic_visit(self, node)

\* build linking STOP only when a statement moved the cursor off START
build_stop_unlinked(self, ref, code) ==
    IF ~code.ok
    THEN [self |-> self, graph |-> None, error |-> <<"Syntax Error: ">> \o code.msg]
    ELSE LET s1 == new_node(self, "START", "oval")
             start_node == node_id(s1.counter)
             s2 == visit_each([s1 EXCEPT !.last_node = start_node], code.body)
             s3 == new_node(s2, "STOP", "oval")
             end_node == node_id(s3.counter)
             s4 == IF s3.last_node # start_node
                   THEN add_edge(s3, s3.last_node, end_node, "")
                   ELSE s3
         IN  [self |-> s4, graph |-> ref, error |-> None]

\* CFGBuilder.build: the builder it leaves and the (graph, error) pair it
\* returns; ref is the reference self.graph holds
build(self, ref, code) ==
    IF ~code.ok
    THEN [self |-> self, graph |-> None, error |-> <<"Syntax Error: ">> \o code.msg]
    ELSE LET s1 == new_node(self, "START", "oval")
             start_node == node_id(s1.counter)
             s2 == visit_each([s1 EXCEPT !.last_node = start_node], code.body)
             s3 == new_node(s2, "STOP", "oval")
             end_node == node_id(s3.counter)
             s4 == IF Truthy(s3.last_node)
                   THEN add_edge(s3, s3.last_node, end_node, "")
                   ELSE s3
         IN  [self |-> s4, graph |-> ref, error |-> None]

(***************************************************************************)
(* calculate_metrics.  The argument is None or the content of a graph;     *)
(* `not graph` is true of None and of a graph without nodes (len 0).       *)
(***************************************************************************)
\* calculate_metrics with counts of zero in place of the `not graph` return
calculate_metrics_zeros(graph) ==
    IF graph = None \/ number_of_nodes(graph) = 0
    THEN [nodes |-> 0, edges |-> 0, predicates |-> 0, complexity |-> 0]
    ELSE LET n == number_of_nodes(graph)
             e == number_of_edges(graph)
             predicate_nodes == {v \in DOMAIN graph.nodes : out_degree(graph, v) > 1}
             p == Cardinality(predicate_nodes)
             complexity == e - n + 2
         IN  [nodes |-> n, edges |-> e, predicates |-> p, complexity |-> complexity]

calculate_metrics(graph) ==
    IF graph = None \/ number_of_nodes(graph) = 0
    THEN <<>>
    ELSE LET n == number_of_nodes(graph)
             e == number_of_edges(graph)
             predicate_nodes == {v \in DOMAIN graph.nodes : out_degree(graph, v) > 1}
             p == Cardinality(predicate_nodes)
             complexity == e - n + 2
         IN  [nodes |-> n, edges |-> e, predicates |-> p, complexity |-> complexity]

(***************************************************************************)
(* State.  A reference to DiGraph object k is <<"DiGraph", k>>.  A record  *)
(* of `returned` keeps, for one build call: the code passed, the pair      *)
(* returned (graph is a reference or None), and the content of the         *)
(* builder's graph object before (pre) and after (post) the call.          *)
(***************************************************************************)
ref(k) == <<"DiGraph", k>>
deref(r) == graphs[r[2]]

\* builder = CFGBuilder(): the instance with its graph held in the store
NewBuilder(k) == [graph |-> ref(k), counter |-> CFGBuilder.counter,
                  last_node |-> CFGBuilder.last_node, calls |-> CFGBuilder.calls]

NoMetrics == [called |-> FALSE, arg |-> None, value |-> <<>>]

Init ==
    /\ graphs = <<CFGBuilder.graph>>
    /\ builder = NewBuilder(1)
    /\ returned = <<>>
    /\ m = NoMetrics
    /\ pc = "constructed"

\* graph, error = builder.build(code) on the instance in hand
CallBuild(code) ==
    LET k == builder.graph[2]
        self == [builder EXCEPT !.graph = graphs[k]]
        r == build(self, builder.graph, code)
    IN  /\ graphs' = [graphs EXCEPT ![k] = r.self.graph]
        /\ builder' = [r.self EXCEPT !.graph = builder.graph]
        /\ returned' = Append(returned,
                              [code |-> code, graph |-> r.graph, error |-> r.error,
                               pre |-> graphs[k], post |-> r.self.graph])

\* calculate_metrics(g) for g None or a graph reference
CallMetrics(g) ==
    m' = [called |-> TRUE, arg |-> g,
          value |-> calculate_metrics(IF g = None THEN None ELSE deref(g))]

(***************************************************************************)
(* The page script (lines 146-153): each run constructs a builder, builds  *)
(* the text of the editor, and shows the error or the metrics.             *)
(***************************************************************************)
ScriptBuild ==
    /\ pc = "constructed"
    /\ \E code \in PageInputs : CallBuild(code)
    /\ pc' = "built"
    /\ UNCHANGED m

ScriptShow ==
    /\ pc = "built"
    /\ LET r == returned[Len(returned)]
       IN  IF r.error # None THEN UNCHANGED m
           ELSE IF r.graph # None /\ number_of_nodes(deref(r.graph)) # 0
                THEN CallMetrics(r.graph)
                ELSE UNCHANGED m
    /\ pc' = "shown"
    /\ UNCHANGED <<graphs, builder, returned>>

\* a new run of the script: the objects of the previous run are dropped
ScriptRerun ==
    /\ pc = "shown"
    /\ graphs' = <<CFGBuilder.graph>>
    /\ builder' = NewBuilder(1)
    /\ returned' = <<>>
    /\ m' = NoMetrics
    /\ pc' = "constructed"

Next == ScriptBuild \/ ScriptShow \/ ScriptRerun

Spec == Init /\ [][Next]_vars

(***************************************************************************)
(* Free use of the class and the function: a caller constructs builders,   *)
(* calls build on the instance in hand any number of times, and calls      *)
(* calculate_metrics on the graph element of any pair returned so far.     *)
(***************************************************************************)
ApiConstruct ==
    /\ Len(graphs) < MaxBuilders
    /\ graphs' = Append(graphs, CFGBuilder.graph)
    /\ builder' = NewBuilder(Len(graphs) + 1)
    /\ UNCHANGED <<returned, m, pc>>

ApiBuild ==
    /\ Len(returned) < MaxBuilds
    /\ \E code \in ApiInputs : CallBuild(code)
    /\ UNCHANGED <<m, pc>>

ApiMetrics ==
    /\ \E i \in DOMAIN returned : CallMetrics(returned[i].graph)
    /\ UNCHANGED <<graphs, builder, returned, pc>>

ApiNext == ApiConstruct \/ ApiBuild \/ ApiMetrics

ApiSpec == Init /\ [][ApiNext]_vars

(***************************************************************************)
(* Vocabulary of the properties.                                           *)
(***************************************************************************)
\* indices of the build calls that returned a graph
Successes == {i \in DOMAIN returned : returned[i].graph # None}

\* contents, as they are now, of the graph objects build has returned
ReturnedGraphs == {deref(returned[i].graph) : i \in Successes}

NodesOf(g) == DOMAIN g.nodes
EdgesOf(g) == {g.edges[i] : i \in DOMAIN g.edges}
OutEdges(g, n) == {i \in DOMAIN g.edges : g.edges[i].source = n}
InEdges(g, n) == {i \in DOMAIN g.edges : g.edges[i].target = n}
Labelled(g, l) == {n \in NodesOf(g) : g.nodes[n].label = l}
Shaped(g, sh) == {n \in NodesOf(g) : g.nodes[n].shape = sh}
WhileDiamonds(g) == {n \in Shaped(g, "diamond") : SubSeq(g.nodes[n].label, 1, 6) = "while "}
IfDiamonds(g) == {n \in Shaped(g, "diamond") : SubSeq(g.nodes[n].label, 1, 3) = "if "}

\* nodes reachable from the nodes of `seen` along edges
RECURSIVE ReachableFrom(_, _)
ReachableFrom(g, seen) ==
    LET next == seen \cup {e.target : e \in {x \in EdgesOf(g) : x.source \in seen}}
    IN  IF next = seen THEN seen ELSE ReachableFrom(g, next)

\* a statement of a class CFGBuilder has a visit_ method for
Supported(node) == node.kind \in {"Assign", "Expr", "If", "While"}

\* the builder as build has it when it reaches statement i of the module body
\* (content of the graph included), starting from a new builder
BeforeStmt(body, i) ==
    LET s1 == new_node(CFGBuilder, "START", "oval")
    IN  visit_each([s1 EXCEPT !.last_node = node_id(s1.counter)], SubSeq(body, 1, i - 1))

(***************************************************************************)
(* C1: in every graph build returned, every node of shape diamond has      *)
(* out-degree exactly 2.                                                   *)
(***************************************************************************)
C1_DiamondOutDegreeTwo ==
    \A g \in ReturnedGraphs : \A n \in Shaped(g, "diamond") : out_degree(g, n) = 2

(***************************************************************************)
(* C2: in every graph build returned, every diamond (of a conditional or   *)
(* of a while loop) has two outgoing edges, exactly one labelled "True"    *)
(* and exactly one labelled "False".                                       *)
(***************************************************************************)
C2_DiamondTrueFalse ==
    \A g \in ReturnedGraphs : \A n \in Shaped(g, "diamond") :
        /\ out_degree(g, n) = 2
        /\ Cardinality({i \in OutEdges(g, n) : g.edges[i].label = "True"}) = 1
        /\ Cardinality({i \in OutEdges(g, n) : g.edges[i].label = "False"}) = 1

(***************************************************************************)
(* C3: every add_edge call of a build yields its own edge, so the edges    *)
(* metric equals the number of add_edge calls; a conditional neither       *)
(* branch of which emits a node leaves two edges diamond -> merge, one     *)
(* labelled "True" and one labelled "False".                               *)
(***************************************************************************)
C3_EveryAddEdgeKept ==
    /\ (pc = "shown" /\ m.called) => m.value.edges = builder.calls
    /\ \A g \in ReturnedGraphs : \A d \in IfDiamonds(g) : \A mg \in Labelled(g, "merge") :
           (\E i \in OutEdges(g, d) : g.edges[i].target = mg /\ g.edges[i].label = "False")
           /\ (\A n \in NodesOf(g) : n[2] > d[2] => n[2] >= mg[2])
           => \E i \in OutEdges(g, d) : g.edges[i].target = mg /\ g.edges[i].label = "True"

(***************************************************************************)
(* C4: visiting a statement of an unsupported kind adds no node and no     *)
(* edge and leaves last_node and the counter unchanged, also when the      *)
(* statement holds nested statements of supported kinds.                   *)
(***************************************************************************)
C4_UnsupportedIsNoOp ==
    \A i \in Successes :
        LET body == returned[i].code.body
        IN  \A k \in DOMAIN body :
                ~Supported(body[k]) =>
                    LET before == BeforeStmt(body, k)
                        after == visit(before, body[k])
                    IN  /\ after.graph = before.graph
                        /\ after.last_node = before.last_node
                        /\ after.counter = before.counter

(***************************************************************************)
(* C5: a graph build has returned is never changed by later build calls    *)
(* (on the same instance or another, parsing or not), and each graph       *)
(* returned holds the nodes and edges of its own program only.             *)
(***************************************************************************)
C5_ReturnedGraphFrozen ==
    \A i \in Successes :
        /\ deref(returned[i].graph) = returned[i].post
        /\ returned[i].post = build(CFGBuilder, returned[i].graph, returned[i].code).self.graph

(***************************************************************************)
(* C6: for a program with a non-empty top-level body, the graph build      *)
(* returns has exactly one oval node of in-degree 0, START, and exactly    *)
(* one oval node of out-degree 0, STOP; no edge targets START and no edge  *)
(* leaves STOP.                                                            *)
(***************************************************************************)
C6_OneEntryOneExit ==
    \A i \in Successes :
        returned[i].code.body # <<>> =>
            LET g == deref(returned[i].graph)
            IN  /\ {n \in Shaped(g, "oval") : in_degree(g, n) = 0} = Labelled(g, "START")
                /\ {n \in Shaped(g, "oval") : out_degree(g, n) = 0} = Labelled(g, "STOP")
                /\ Cardinality(Labelled(g, "START")) = 1
                /\ Cardinality(Labelled(g, "STOP")) = 1
                /\ \A e \in EdgesOf(g) : e.target \notin Labelled(g, "START")
                /\ \A e \in EdgesOf(g) : e.source \notin Labelled(g, "STOP")

\* a graph returned for a non-empty program with a loop back-edge out of a loop body
C6_Witness ==
    \E i \in Successes :
        LET g == deref(returned[i].graph)
        IN  /\ returned[i].code.body # <<>>
            /\ \E e \in EdgesOf(g) : e.label = "Loop Back" /\ e.source # e.target
            /\ Labelled(g, "START") # {} /\ Labelled(g, "STOP") # {}

(***************************************************************************)
(* C7: when the text does not parse, build returns an error and no graph   *)
(* and adds no node and no edge; calculate_metrics of that absent graph    *)
(* is the empty mapping.  When the text parses, build returns a graph and  *)
(* no error.                                                               *)
(***************************************************************************)
C7_SyntaxErrorOutcome ==
    /\ \A i \in DOMAIN returned :
           IF returned[i].code.ok
           THEN returned[i].graph # None /\ returned[i].error = None
           ELSE /\ returned[i].graph = None
                /\ returned[i].error # None
                /\ returned[i].post = returned[i].pre
    /\ (m.called /\ m.arg = None) => DOMAIN m.value = {}

\* a parse failure on a builder that had built before, a parse success, and
\* calculate_metrics called on the absent graph
C7_Witness ==
    /\ \E i \in DOMAIN returned : ~returned[i].code.ok /\ returned[i].pre # DiGraph
    /\ \E i \in DOMAIN returned : returned[i].code.ok
    /\ m.called /\ m.arg = None

(***************************************************************************)
(* C8: every graph build returns has a directed path from START to STOP.   *)
(***************************************************************************)
C8_StopReachable ==
    \A g \in ReturnedGraphs :
        \A a \in Labelled(g, "START") : \A z \in Labelled(g, "STOP") :
            z \in ReachableFrom(g, {a})

\* a graph with a loop nested in a conditional or a conditional nested in a loop
C8_Witness ==
    \E g \in ReturnedGraphs :
        /\ WhileDiamonds(g) # {} /\ IfDiamonds(g) # {}
        /\ Labelled(g, "START") # {} /\ Labelled(g, "STOP") # {}

(***************************************************************************)
(* C9: a while loop emits one diamond d entered by one edge from the       *)
(* previous cursor; the body is visited from d; one "Loop Back" edge       *)
(* enters d, from the last node the body emitted or from d itself when     *)
(* the body emitted none; one "False" edge leaves d, to a point node       *)
(* exit_loop emitted right after the body; what follows the loop attaches  *)
(* to exit_loop (its one outgoing edge) and not to the body's last node    *)
(* (whose one outgoing edge is the back-edge).                             *)
(***************************************************************************)
C9_WhileShape ==
    \A g \in ReturnedGraphs : \A d \in WhileDiamonds(g) :
        LET exits == {i \in OutEdges(g, d) : g.edges[i].label = "False"}
            backs == {i \in InEdges(g, d) : g.edges[i].label = "Loop Back"}
            entries == {i \in InEdges(g, d) : g.edges[i].source[2] < d[2]}
        IN  /\ Cardinality(exits) = 1
            /\ Cardinality(backs) = 1
            /\ Cardinality(entries) = 1
            /\ InEdges(g, d) = backs \cup entries
            /\ out_degree(g, d) = 2
            /\ \A i \in exits : \A b \in backs :
                   LET x == g.edges[i].target
                       s == g.edges[b].source
                   IN  /\ g.nodes[x] = [label |-> "exit_loop", shape |-> "point"]
                       /\ x[2] > d[2]
                       /\ s = IF x[2] = d[2] + 1 THEN d ELSE node_id(x[2] - 1)
                       /\ s # d => /\ out_degree(g, s) = 1
                                   /\ \E e \in EdgesOf(g) :
                                          e.source = d /\ e.target = node_id(d[2] + 1)
                       /\ out_degree(g, x) = 1
                       /\ in_degree(g, x) = 1

\* a loop whose body ends in a nested merge or exit_loop node, followed by a statement
C9_Witness ==
    \E g \in ReturnedGraphs : \E d \in WhileDiamonds(g) :
        \E b \in InEdges(g, d) : \E i \in OutEdges(g, d) :
            /\ g.edges[b].label = "Loop Back"
            /\ g.nodes[g.edges[b].source].shape = "point"
            /\ g.edges[i].label = "False"
            /\ \E e \in EdgesOf(g) : e.source = g.edges[i].target
                                     /\ g.nodes[e.target].shape = "box"

(***************************************************************************)
(* C10: the metrics of a graph built by one build on a new builder satisfy *)
(* complexity = predicates + 1.                                            *)
(***************************************************************************)
C10_ComplexityIsPredicatesPlusOne ==
    (pc = "shown" /\ m.called) => m.value.complexity = m.value.predicates + 1

\* metrics of a graph with two predicate nodes and a diamond both of whose
\* branches emitted no node
C10_Witness ==
    /\ pc = "shown" /\ m.called
    /\ m.value.predicates = 2
    /\ \E d \in Shaped(deref(m.arg), "diamond") : out_degree(deref(m.arg), d) = 1

====
